---- MODULE Spec2Model ----
(***************************************************************************)
(* Model of the EIP-7702 demo: the fixed-point helpers ToIntByPrecise and  *)
(* ToStringByPrecise of main.go, and the sequential flow of main.          *)
(*                                                                         *)
(* Strings are sequences of one-character strings.  A *big.Int argument is *)
(* a record [nil, v].  Spec exercises the two helpers on bounded inputs;   *)
(* SpecMain runs main against a nondeterministic chain client.             *)
(***************************************************************************)
EXTENDS Integers, Sequences, FiniteSets, TLC

\* ------------------------------------------------------------------ bounds
MaxLen == 4        \* longest enumerated input string
MaxPrecise == 3    \* largest enumerated precision
NegPrecise == 1    \* precisions start at -NegPrecise
MaxVal == 30       \* *big.Int arguments range over -MaxVal..MaxVal
MaxBal == 3        \* token balances the chain may report, 0..MaxBal

\* ------------------------------------------------------- strings and digits
DigitChars == <<"0", "1", "2", "3", "4", "5", "6", "7", "8", "9">>

IsDigit(c) == \E i \in 1..10 : DigitChars[i] = c

DigitVal(c) == (CHOOSE i \in 1..10 : DigitChars[i] = c) - 1

\* the characters input strings are built from: digits, the separator,
\* the two signs, a letter and white space
Chars == {"0", "1", "2", ".", "-", "+", "a", " "}

\* the worked examples of the documentation that are longer than MaxLen
ExampleInputs == { <<"1", ".", "2", ".", "3">>, <<"1", "2", "a", ".", "3">> }

Inputs == UNION { [1..n -> Chars] : n \in 0..MaxLen } \cup ExampleInputs

Precisions == (0 - NegPrecise)..MaxPrecise

RECURSIVE Pow10(_)
\* new(big.Int).Exp(big.NewInt(10), big.NewInt(e), nil), e >= 0
Pow10(e) == IF e <= 0 THEN 1 ELSE 10 * Pow10(e - 1)

IsSpace(c) == c = " "

RECURSIVE TrimLeft(_)
TrimLeft(s) == IF s # <<>> /\ IsSpace(s[1]) THEN TrimLeft(Tail(s)) ELSE s

RECURSIVE TrimRight(_)
TrimRight(s) ==
    IF s # <<>> /\ IsSpace(s[Len(s)]) THEN TrimRight(SubSeq(s, 1, Len(s) - 1)) ELSE s

\* strings.TrimSpace
TrimSpace(s) == TrimRight(TrimLeft(s))

\* index of the first "." of s, 0 when there is none
IndexDot(s) ==
    IF \E i \in 1..Len(s) : s[i] = "."
    THEN CHOOSE i \in 1..Len(s) : s[i] = "." /\ \A j \in 1..(i - 1) : s[j] # "."
    ELSE 0

RECURSIVE Split(_)
\* strings.Split(s, "."): every "." separates two parts
Split(s) ==
    IF IndexDot(s) = 0 THEN <<s>>
    ELSE <<SubSeq(s, 1, IndexDot(s) - 1)>> \o Split(SubSeq(s, IndexDot(s) + 1, Len(s)))

RECURSIVE NatVal(_)
\* nat.scan in base 10: z = z*10 + d for each digit, left to right
NatVal(ds) ==
    IF ds = <<>> THEN 0
    ELSE NatVal(SubSeq(ds, 1, Len(ds) - 1)) * 10 + DigitVal(ds[Len(ds)])

\* length of the sign prefix big.Int's scanner accepts
SignLen(s) == IF s # <<>> /\ s[1] \in {"+", "-"} THEN 1 ELSE 0

RECURSIVE DigitRun(_, _)
\* number of consecutive digits of s starting at index i
DigitRun(s, i) == IF i <= Len(s) /\ IsDigit(s[i]) THEN 1 + DigitRun(s, i + 1) ELSE 0

\* what the scanner has read when it stops: the signed value of the digit run
ScanPrefix(s) ==
    LET sg  == SignLen(s)
        n   == DigitRun(s, sg + 1)
        abs == NatVal(SubSeq(s, sg + 1, sg + n))
    IN IF sg = 1 /\ s[1] = "-" THEN 0 - abs ELSE abs

\* (*big.Int).SetString(s, 10) succeeds iff s is [+-]?[0-9]+
SetStringOk(s) ==
    LET sg == SignLen(s)
        n  == DigitRun(s, sg + 1)
    IN n > 0 /\ sg + n = Len(s)

\* the values bi may hold after bi.SetString(s, 10).  On failure the value
\* of the receiver is undefined: it is the scanned prefix or zero
SetStringOutcomes(s) ==
    IF SetStringOk(s) THEN {ScanPrefix(s)} ELSE {0, ScanPrefix(s)}

RECURSIVE NatString(_)
NatString(n) ==
    IF n < 10 THEN <<DigitChars[n + 1]>>
    ELSE NatString(n \div 10) \o <<DigitChars[(n % 10) + 1]>>

\* (*big.Int).String()
IntString(n) == IF n < 0 THEN <<"-">> \o NatString(0 - n) ELSE NatString(n)

\* ------------------------------------------------------------ main.go helpers
\* main.go:145-147: a value without separator gets the fractional part "0"
DefaultPartsEmpty(parts) == IF Len(parts) = 1 THEN Append(parts, <<>>) ELSE parts

DefaultParts(parts) == IF Len(parts) = 1 THEN Append(parts, <<"0">>) ELSE parts

\* main.go:143-147
PartsOf(value) == DefaultParts(Split(TrimSpace(value)))

\* main.go:148-151: precise - len(parts[1]), clamped at zero
EffectivePrecise(value, precise) ==
    LET p == precise - Len(PartsOf(value)[2])
    IN IF p < 0 THEN 0 ELSE p

\* main.go:152: the string handed to SetString
DigitString(value) == PartsOf(value)[1] \o PartsOf(value)[2]

\* main.go:142-154 in factored form: the integers bi may hold after
\* SetString, each with the power of ten it is multiplied by
ToIntByPreciseFactors(value, precise) ==
    { [bi |-> b, precise |-> EffectivePrecise(value, precise)] :
        b \in SetStringOutcomes(DigitString(value)) }

\* main.go:155-158: the product bi * 10^precise
Product(f) == IF f.precise > 0 THEN f.bi * Pow10(f.precise) ELSE f.bi

\* main.go:142-159: the integers ToIntByPrecise(value, precise) may return.
\* The boolean SetString returns is dropped (main.go:154), so the function
\* has no other way out than returning one of these
ToIntByPrecise(value, precise) ==
    { Product(f) : f \in ToIntByPreciseFactors(value, precise) }

NilInt == [nil |-> TRUE, v |-> 0]

BigInt(n) == [nil |-> FALSE, v |-> n]

\* main.go:166-169: the exponent of the divisor
DivisorExponent(precise) ==
    LET p == 0 - precise
    IN IF p < 0 THEN 0 ELSE p

\* main.go:161-172
ToStringByPrecise(value, precise) ==
    IF value.nil THEN <<"0">>
    ELSE IntString(value.v \div Pow10(DivisorExponent(precise)))

\* --------------------------------------------------------------- the state
VARIABLES
    fn,        \* the helper under call: "ToIntByPrecise" or "ToStringByPrecise"
    argStr,    \* the string argument of ToIntByPrecise
    argInt,    \* the *big.Int argument of ToStringByPrecise
    precise,   \* the precise argument
    at,        \* "call", "returned", or "roundtrip" once the string result
               \* has been converted back
    retInt,    \* the integer ToIntByPrecise returned
    retStr,    \* the string ToStringByPrecise returned
    pc,        \* main's position
    Bob, Joe,  \* the two accounts of main
    auth1,     \* the authorization Bob signed
    receipt,   \* main's receipt variable
    rpc,       \* what main has had the chain client do, in order
    bobWBNBBal,    \* the balance read at main.go:99
    amountIn, amountOutMin,  \* the swap amounts, as factors bi and 10^precise
    logs       \* the balances main has logged

codecVars == <<fn, argStr, argInt, precise, at, retInt, retStr>>

mainVars == <<pc, Bob, Joe, auth1, receipt, rpc, bobWBNBBal, amountIn, amountOutMin, logs>>

vars == <<codecVars, mainVars>>

BigInts == {NilInt} \cup { BigInt(n) : n \in (0 - MaxVal)..MaxVal }

InitCodec ==
    /\ at = "call"
    /\ precise \in Precisions
    /\ retInt = 0
    /\ retStr = <<>>
    /\ \/ fn = "ToIntByPrecise" /\ argStr \in Inputs /\ argInt = NilInt
       \/ fn = "ToStringByPrecise" /\ argStr = <<>> /\ argInt \in BigInts

\* ----------------------------------------------------------- main.go: main
ROUTER_ADDRESS == "0x66c488c48fF2CB17450391D24b923A92e5f6da5C"

\* the private keys main.go:33 and main.go:39 hand to bsc.NewAccount
BobKey == "2292e6d240d784706c1d46dedd26d511e919837f043be64cde9ee234534bb387"

JoeKey == "2292e6d240d784706c1d46dedd26d511e919837f043be64cde9ee234534bb387"

\* the address of a private key: a function of the key, one-to-one
AddrOf(key) == <<"addr", key>>

\* bsc.NewAccount(client, key)
NewAccount(key) == [key |-> key, Addr |-> AddrOf(key)]

NoAccount == [key |-> "", Addr |-> <<"addr", "">>]

NoAuth == [nil |-> TRUE, signer |-> <<"addr", "">>, target |-> ""]

NoReceipt == [nil |-> TRUE, Status |-> 0]

\* what GetReceipt may return: nil after the timeout, or a receipt
Receipts == {NoReceipt} \cup { [nil |-> FALSE, Status |-> s] : s \in {0, 1} }

NoFactors == [bi |-> 0, precise |-> 0]

\* main.go:71 and main.go:124
ReceiptFailedNilOnly(r) == r.nil

ReceiptFailed(r) == r.nil \/ r.Status # 1

Sent(kind, from) == [ev |-> "send", kind |-> kind, from |-> from, nil |-> FALSE, Status |-> 0]

Got(kind, from, r) == [ev |-> "receipt", kind |-> kind, from |-> from, nil |-> r.nil, Status |-> r.Status]

Balances == { BigInt(b) : b \in 0..MaxBal }

InitMain ==
    /\ pc = "dial"
    /\ Bob = NoAccount
    /\ Joe = NoAccount
    /\ auth1 = NoAuth
    /\ receipt = NoReceipt
    /\ rpc = <<>>
    /\ bobWBNBBal = NilInt
    /\ amountIn = NoFactors
    /\ amountOutMin = NoFactors
    /\ logs = <<>>

\* the helpers on bounded inputs; main has not started
Init == InitCodec /\ InitMain

\* a call of ToIntByPrecise(argStr, precise) returns
CallToIntByPrecise ==
    /\ at = "call"
    /\ fn = "ToIntByPrecise"
    /\ \E r \in ToIntByPrecise(argStr, precise) : retInt' = r
    /\ at' = "returned"
    /\ UNCHANGED <<fn, argStr, argInt, precise, retStr, mainVars>>

\* a call of ToStringByPrecise(argInt, precise) returns
CallToStringByPrecise ==
    /\ at = "call"
    /\ fn = "ToStringByPrecise"
    /\ retStr' = ToStringByPrecise(argInt, precise)
    /\ at' = "returned"
    /\ UNCHANGED <<fn, argStr, argInt, precise, retInt, mainVars>>

\* the string result is converted back: ToIntByPrecise(retStr, precise)
RoundTrip ==
    /\ at = "returned"
    /\ fn = "ToStringByPrecise"
    /\ \E r \in ToIntByPrecise(retStr, precise) : retInt' = r
    /\ at' = "roundtrip"
    /\ UNCHANGED <<fn, argStr, argInt, precise, retStr, mainVars>>

\* main.go:27-30
Dial ==
    /\ pc = "dial"
    /\ \E err \in BOOLEAN : pc' = IF err THEN "fatal" ELSE "newBob"
    /\ UNCHANGED <<Bob, Joe, auth1, receipt, rpc, bobWBNBBal, amountIn, amountOutMin, logs, codecVars>>

\* main.go:33-37
NewBob ==
    /\ pc = "newBob"
    /\ \E err \in BOOLEAN :
        IF err THEN pc' = "fatal" /\ Bob' = Bob
        ELSE pc' = "newJoe" /\ Bob' = NewAccount(BobKey)
    /\ UNCHANGED <<Joe, auth1, receipt, rpc, bobWBNBBal, amountIn, amountOutMin, logs, codecVars>>

\* main.go:39-43
NewJoe ==
    /\ pc = "newJoe"
    /\ \E err \in BOOLEAN :
        IF err THEN pc' = "fatal" /\ Joe' = Joe
        ELSE pc' = "sign" /\ Joe' = NewAccount(JoeKey)
    /\ UNCHANGED <<Bob, auth1, receipt, rpc, bobWBNBBal, amountIn, amountOutMin, logs, codecVars>>

\* main.go:46-55: Bob signs the authorization for the router
SignAuth ==
    /\ pc = "sign"
    /\ \E ok \in BOOLEAN :
        IF ok
        THEN /\ auth1' = [nil |-> FALSE, signer |-> Bob.Addr, target |-> ROUTER_ADDRESS]
             /\ pc' = "opts0"
        ELSE auth1' = NoAuth /\ pc' = "fatal"
    /\ UNCHANGED <<Bob, Joe, receipt, rpc, bobWBNBBal, amountIn, amountOutMin, logs, codecVars>>

\* main.go:58-61
BuildOpts0 ==
    /\ pc = "opts0"
    /\ \E err \in BOOLEAN : pc' = IF err THEN "fatal" ELSE "sendAuth"
    /\ UNCHANGED <<Bob, Joe, auth1, receipt, rpc, bobWBNBBal, amountIn, amountOutMin, logs, codecVars>>

\* main.go:63-67: Joe sends the set-code transaction
SendEIP7702Tx ==
    /\ pc = "sendAuth"
    /\ \E err \in BOOLEAN :
        IF err THEN pc' = "fatal" /\ rpc' = rpc
        ELSE pc' = "receipt0" /\ rpc' = Append(rpc, Sent("setcode", Joe.Addr))
    /\ UNCHANGED <<Bob, Joe, auth1, receipt, bobWBNBBal, amountIn, amountOutMin, logs, codecVars>>

\* main.go:70-73
WaitEIP7702Receipt ==
    /\ pc = "receipt0"
    /\ \E r \in Receipts :
        /\ receipt' = r
        /\ rpc' = Append(rpc, Got("setcode", Joe.Addr, r))
        /\ pc' = IF ReceiptFailed(r) THEN "fatal" ELSE "codeAt"
    /\ UNCHANGED <<Bob, Joe, auth1, bobWBNBBal, amountIn, amountOutMin, logs, codecVars>>

\* main.go:75-80
CodeAt ==
    /\ pc = "codeAt"
    /\ \E err \in BOOLEAN : pc' = IF err THEN "fatal" ELSE "wbnbInstance"
    /\ UNCHANGED <<Bob, Joe, auth1, receipt, rpc, bobWBNBBal, amountIn, amountOutMin, logs, codecVars>>

\* main.go:82-85
NewWBNB ==
    /\ pc = "wbnbInstance"
    /\ \E err \in BOOLEAN : pc' = IF err THEN "fatal" ELSE "usdtInstance"
    /\ UNCHANGED <<Bob, Joe, auth1, receipt, rpc, bobWBNBBal, amountIn, amountOutMin, logs, codecVars>>

\* main.go:87-90
NewUSDT ==
    /\ pc = "usdtInstance"
    /\ \E err \in BOOLEAN : pc' = IF err THEN "fatal" ELSE "routerInstance"
    /\ UNCHANGED <<Bob, Joe, auth1, receipt, rpc, bobWBNBBal, amountIn, amountOutMin, logs, codecVars>>

\* main.go:93-96
NewRouter ==
    /\ pc = "routerInstance"
    /\ \E err \in BOOLEAN : pc' = IF err THEN "fatal" ELSE "balance"
    /\ UNCHANGED <<Bob, Joe, auth1, receipt, rpc, bobWBNBBal, amountIn, amountOutMin, logs, codecVars>>

\* main.go:99-103
InitialBalance ==
    /\ pc = "balance"
    /\ \E err \in BOOLEAN, b \in Balances :
        IF err THEN pc' = "fatal" /\ bobWBNBBal' = bobWBNBBal /\ logs' = logs
        ELSE /\ pc' = "amounts"
             /\ bobWBNBBal' = b
             /\ logs' = Append(logs, ToStringByPrecise(b, 18))
    /\ UNCHANGED <<Bob, Joe, auth1, receipt, rpc, amountIn, amountOutMin, codecVars>>

\* main.go:106-109
SwapParameters ==
    /\ pc = "amounts"
    /\ \E f \in ToIntByPreciseFactors(<<"0", ".", "0", "1">>, 18) : amountIn' = f
    /\ \E f \in ToIntByPreciseFactors(<<"1">>, 2) : amountOutMin' = f
    /\ pc' = "opts2"
    /\ UNCHANGED <<Bob, Joe, auth1, receipt, rpc, bobWBNBBal, logs, codecVars>>

\* main.go:112-115
BuildOpts2 ==
    /\ pc = "opts2"
    /\ \E err \in BOOLEAN : pc' = IF err THEN "fatal" ELSE "swap"
    /\ UNCHANGED <<Bob, Joe, auth1, receipt, rpc, bobWBNBBal, amountIn, amountOutMin, logs, codecVars>>

\* main.go:117-121: Bob submits the swap to the router at his own address
SwapExactTokensForTokens ==
    /\ pc = "swap"
    /\ \E err \in BOOLEAN :
        IF err THEN pc' = "fatal" /\ rpc' = rpc
        ELSE pc' = "receipt1" /\ rpc' = Append(rpc, Sent("swap", Bob.Addr))
    /\ UNCHANGED <<Bob, Joe, auth1, receipt, bobWBNBBal, amountIn, amountOutMin, logs, codecVars>>

\* main.go:123-126
WaitSwapReceipt ==
    /\ pc = "receipt1"
    /\ \E r \in Receipts :
        /\ receipt' = r
        /\ rpc' = Append(rpc, Got("swap", Bob.Addr, r))
        /\ pc' = IF ReceiptFailed(r) THEN "fatal" ELSE "balanceUSDT"
    /\ UNCHANGED <<Bob, Joe, auth1, bobWBNBBal, amountIn, amountOutMin, logs, codecVars>>

\* main.go:129-133
FinalUSDTBalance ==
    /\ pc = "balanceUSDT"
    /\ \E err \in BOOLEAN, b \in Balances :
        IF err THEN pc' = "fatal" /\ logs' = logs
        ELSE pc' = "balanceWBNB" /\ logs' = Append(logs, ToStringByPrecise(b, 6))
    /\ UNCHANGED <<Bob, Joe, auth1, receipt, rpc, bobWBNBBal, amountIn, amountOutMin, codecVars>>

\* main.go:135-139
FinalWBNBBalance ==
    /\ pc = "balanceWBNB"
    /\ \E err \in BOOLEAN, b \in Balances :
        IF err THEN pc' = "fatal" /\ logs' = logs
        ELSE pc' = "done" /\ logs' = Append(logs, ToStringByPrecise(b, 18))
    /\ UNCHANGED <<Bob, Joe, auth1, receipt, rpc, bobWBNBBal, amountIn, amountOutMin, codecVars>>

Next == CallToIntByPrecise \/ CallToStringByPrecise \/ RoundTrip

Spec == Init /\ [][Next]_vars

\* one run of main; no helper call is pending outside it
InitRun ==
    /\ InitMain
    /\ fn = "ToIntByPrecise"
    /\ argStr = <<>>
    /\ argInt = NilInt
    /\ precise = 0
    /\ at = "returned"
    /\ retInt = 0
    /\ retStr = <<>>

NextMain ==
    \/ Dial \/ NewBob \/ NewJoe \/ SignAuth \/ BuildOpts0 \/ SendEIP7702Tx
    \/ WaitEIP7702Receipt \/ CodeAt \/ NewWBNB \/ NewUSDT \/ NewRouter
    \/ InitialBalance \/ SwapParameters \/ BuildOpts2 \/ SwapExactTokensForTokens
    \/ WaitSwapReceipt \/ FinalUSDTBalance \/ FinalWBNBBalance

SpecMain == InitRun /\ [][NextMain]_vars

\* ------------------------------------------------------------------ claims
\* the argument of the ToIntByPrecise call, trimmed
Trimmed == TrimSpace(argStr)

\* the text before the first "." (all of s when there is none)
IntegerPart(s) == IF IndexDot(s) = 0 THEN s ELSE SubSeq(s, 1, IndexDot(s) - 1)

\* the text after the first "." (empty when there is none)
AfterFirstDot(s) == IF IndexDot(s) = 0 THEN <<>> ELSE SubSeq(s, IndexDot(s) + 1, Len(s))

AllDigits(s) == \A i \in 1..Len(s) : IsDigit(s[i])

\* digits with at most one "."
SignFreeDecimal(s) == AllDigits(IntegerPart(s)) /\ AllDigits(AfterFirstDot(s))

\* the fractional digits F of the form I or I.F, "0" when the separator is missing
FractionOrZero(s) == IF IndexDot(s) = 0 THEN <<"0">> ELSE AfterFirstDot(s)

RECURSIVE WeightedSum(_, _)
\* sum of digit * 10^(position from the right) over the first k digits of ds
WeightedSum(ds, k) ==
    IF k = 0 THEN 0
    ELSE DigitVal(ds[k]) * Pow10(Len(ds) - k) + WeightedSum(ds, k - 1)

\* the integer a string of decimal digits denotes
DecimalValue(ds) == WeightedSum(ds, Len(ds))

Max0(n) == IF n < 0 THEN 0 ELSE n

ToIntReturned == fn = "ToIntByPrecise" /\ at = "returned"

ToStringReturned == fn = "ToStringByPrecise" /\ at # "call"

\* C1: for a non-nil v >= 0 and a precision p >= 0, ToStringByPrecise(v, p)
\* is the decimal string of floor(v / 10^p).
C1_FloorOfScaled ==
    (ToStringReturned /\ ~argInt.nil /\ argInt.v >= 0 /\ precise >= 0)
        => retStr = NatString(argInt.v \div Pow10(precise))

\* C2: for a sign-free decimal amount d (digits, at most one ".") and a
\* precision p >= 0, ToIntByPrecise(d, p) is d * 10^p rounded down.
C2_RoundDownOfScaled ==
    (/\ ToIntReturned
     /\ precise >= 0
     /\ SignFreeDecimal(argStr)
     /\ IntegerPart(argStr) \o AfterFirstDot(argStr) # <<>>)
        => retInt = (DecimalValue(IntegerPart(argStr) \o AfterFirstDot(argStr))
                        * Pow10(precise)) \div Pow10(Len(AfterFirstDot(argStr)))

\* C3: when the trimmed input without its separator holds a non-digit
\* character, ToIntByPrecise reports a failure and returns no integer.
C3_ParseFailureReported ==
    ToIntReturned => AllDigits(IntegerPart(Trimmed) \o AfterFirstDot(Trimmed))

\* C4: for n >= 0 and p >= 0, r = ToIntByPrecise(ToStringByPrecise(n, p), p)
\* satisfies r <= n and n - r < 10^p.
C4_RoundTripBound ==
    (at = "roundtrip" /\ ~argInt.nil /\ argInt.v >= 0 /\ precise >= 0)
        => (retInt <= argInt.v /\ argInt.v - retInt < Pow10(precise))

\* C5: for a non-nil x and a precision p < 0, ToStringByPrecise(x, p) is the
\* decimal string of x itself, unscaled.
C5_NegativePrecisionUnscaled ==
    (ToStringReturned /\ ~argInt.nil /\ precise < 0)
        => retStr = IntString(argInt.v)

\* C6: every integer ToIntByPrecise returns is non-negative, whatever the
\* input string and the precision.
C6_ResultNonNegative == ToIntReturned => retInt >= 0

\* C7: for a trimmed input I or I.F of digits (F taken as "0" when the
\* separator is missing, I followed by F non-empty), ToIntByPrecise returns
\* N * 10^max(0, p - len(F)), N being the integer with the digits I F.
C7_DigitsTimesPower ==
    (/\ ToIntReturned
     /\ SignFreeDecimal(Trimmed)
     /\ IntegerPart(Trimmed) \o FractionOrZero(Trimmed) # <<>>)
        => retInt = DecimalValue(IntegerPart(Trimmed) \o FractionOrZero(Trimmed))
                        * Pow10(Max0(precise - Len(FractionOrZero(Trimmed))))

\* a call with more fractional digits than the precision: "0.12" at
\* precision 1 has returned 12
C7_Witness ==
    /\ ToIntReturned
    /\ argStr = <<"0", ".", "1", "2">>
    /\ precise = 1
    /\ retInt = 12

IsSend(e, kind) == e.ev = "send" /\ e.kind = kind

IsReceipt(e, kind) == e.ev = "receipt" /\ e.kind = kind

SwapSubmitted == \E i \in 1..Len(rpc) : IsSend(rpc[i], "swap")

\* C8: the swap is submitted only after the set-code transaction was sent
\* and its receipt obtained with status 1; with a missing receipt or another
\* status the run has aborted and no swap is submitted.
C8_SwapOnlyAfterAuthorization ==
    /\ \A i \in 1..Len(rpc) :
        IsSend(rpc[i], "swap") =>
            \E j, k \in 1..(i - 1) :
                /\ j < k
                /\ IsSend(rpc[j], "setcode")
                /\ IsReceipt(rpc[k], "setcode")
                /\ ~rpc[k].nil
                /\ rpc[k].Status = 1
    /\ \A k \in 1..Len(rpc) :
        (IsReceipt(rpc[k], "setcode") /\ (rpc[k].nil \/ rpc[k].Status # 1))
            => (pc = "fatal" /\ ~SwapSubmitted)

\* the swap has been submitted and main waits for its receipt
C8_Witness == pc = "receipt1" /\ SwapSubmitted

\* C9: Joe, who submits the set-code transaction, and Bob, who signs the
\* authorization and swaps, are built from different private keys and have
\* different addresses.
C9_DistinctAccounts ==
    (Bob # NoAccount /\ Joe # NoAccount)
        => (Bob.key # Joe.key /\ Bob.Addr # Joe.Addr)

\* C10: the input is split on its first "." only: everything after it is the
\* fractional part, its full length is subtracted from the precision, and
\* all of it takes part in the digit string that is parsed.
C10_SplitOnFirstDotOnly ==
    (ToIntReturned /\ IndexDot(Trimmed) # 0)
        => retInt \in
            { Product([bi |-> b,
                       precise |-> Max0(precise - Len(AfterFirstDot(Trimmed)))]) :
                b \in SetStringOutcomes(IntegerPart(Trimmed) \o AfterFirstDot(Trimmed)) }
====
